---- MODULE Spec2Model ----
(***************************************************************************)
(* Octofree: the session lifecycle engine (main.py, notifier.py), the      *)
(* session store (storage.py), the time resolver (utils.py) and the        *)
(* startup reconciler (validator.py).                                      *)
(*                                                                         *)
(* Time is an integer number of five-minute units counted from midnight of *)
(* day 0; every datetime the program stores is on the hour, and the only   *)
(* offsets it uses are five minutes (reminders) and one hour (the sleep).  *)
(* A stored time goes to disk with isoformat() and comes back with         *)
(* fromisoformat(); at a precision of minutes that pair is exact, so a     *)
(* stored time is the same integer in memory and on disk, and None is Null.*)
(***************************************************************************)
EXTENDS Integers, Sequences, FiniteSets, TLC

VARIABLES
    scheduled_file,       \* scheduled_sessions.json: a sequence of session records
    past_file,            \* past_scheduled_sessions.json: a sequence of session records
    last_extracted_file,  \* last_extracted_sessions.json: the set of the strings it lists
    now,                  \* the wall clock, datetime.now()
    pc,                   \* where the process is: "down", "poll", "sleep", "dead" (ended
                          \* by an exception) or "done" (left the loop in single-run mode)
    session_type,         \* main(): session_type of the latest poll iteration
    sent,                 \* the messages handed to send_discord_notification, per session and kind
    test_mode,            \* TEST_MODE of the environment
    x_enabled,            \* bool(os.getenv('BEARER_TOKEN'))
    published,            \* the session strings the website and X.com carry during the run
    discord,              \* the webhook: "up", "down" (the post fails) or "unset" (no URL)
    delivered,            \* the messages Discord accepted, per session and kind
    inflight,             \* the main thread's work in memory: the effects still to carry out
    other,                \* test_reminder_notifications.py main(): its position and its list
    single_run            \* SINGLE_RUN of the environment

vars == <<scheduled_file, past_file, last_extracted_file, now, pc, session_type,
          sent, test_mode, x_enabled, published, discord, delivered, inflight, other,
          single_run>>

env == <<test_mode, x_enabled, published, discord, inflight, other, single_run>>

(***************************************************************************)
(* Program constants, in the units of the model.                           *)
(***************************************************************************)
UnitsPerHour == 12
HoursPerDay == 24
UnitsPerDay == HoursPerDay * UnitsPerHour
FiveMinutes == 1
SleepUnits == 12
MaxDurationHours == 4
Null == -1
Raise == -2
Missing == -3

(***************************************************************************)
(* Bounds of the model.                                                    *)
(***************************************************************************)
FirstBoot == 238
MaxTime == 265
MaxDowntime == 12
MaxPhase == 2
MaxFound == 2
MaxXFound == 1
MaxSent == 2

(***************************************************************************)
(* A session string, e.g. "9-10pm, Friday 24th October", is the record of  *)
(* what the parsers read in it: the start numeral and its meridiem ("" when*)
(* the text has none), the end numeral and its meridiem, and the day the   *)
(* date part names (BadDate when strptime rejects it).  shape is "ok",     *)
(* "nocomma" (split(',') does not give two parts) or "nodash" (split('-')  *)
(* does not give two parts) or "empty" (the empty string).                 *)
(***************************************************************************)
BadDate == -1

Str(sh, sap, eh, eap, date) ==
    [shape |-> "ok", sh |-> sh, sap |-> sap, eh |-> eh, eap |-> eap, date |-> date]

S_8_9pm == Str(8, "", 9, "pm", 0)
S_9_10pm == Str(9, "", 10, "pm", 0)
S_11_1pm == Str(11, "", 1, "pm", 0)

Strings == {S_8_9pm, S_9_10pm, S_11_1pm}

Kinds == {"date_time", "5min_delta", "end_state"}

(***************************************************************************)
(* utils.py                                                                *)
(***************************************************************************)
To24(hour, ampm) ==
    IF ampm = "pm" /\ hour # 12 THEN hour + 12
    ELSE IF ampm = "am" /\ hour = 12 THEN 0
    ELSE hour

\* date_obj.replace(hour=hour, minute=0): ValueError unless hour is in 0..23
Replace(date, hour) ==
    IF hour < 0 \/ hour >= HoursPerDay THEN Raise
    ELSE date * UnitsPerDay + hour * UnitsPerHour

end_ampm_for_start(s) == IF s.eap = "" THEN "pm" ELSE s.eap

start_ampm(s) == IF s.sap = "" THEN end_ampm_for_start(s) ELSE s.sap

NeedsFlip(time_diff, ampm) ==
    (time_diff > MaxDurationHours * UnitsPerHour \/ time_diff < 0) /\ ampm = "am"

parse_session_date(s) ==
    IF s.shape # "ok" THEN Null
    ELSE LET end_ampm == end_ampm_for_start(s)
             ampm == start_ampm(s)
             hour == To24(s.sh, ampm)
         IN  IF s.date = BadDate THEN Null
             ELSE LET start_dt == Replace(s.date, hour)
                      end_hour == To24(s.eh, end_ampm)
                      end_dt == Replace(s.date, end_hour)
                  IN  IF start_dt = Raise \/ end_dt = Raise THEN Raise
                      ELSE IF NeedsFlip(end_dt - start_dt, ampm)
                           THEN Replace(s.date, IF s.sh # 12 THEN s.sh + 12 ELSE s.sh)
                           ELSE start_dt

\* the bug of C13's mutant: only the test of line 187 is made, not that of line 190
parse_session_to_reminder_late(s, t) ==
    LET session_start == parse_session_date(s)
    IN  IF session_start \in {Null, Raise} THEN session_start
        ELSE IF session_start <= t THEN Null
        ELSE session_start - FiveMinutes

\* lines 120-184 repeat parse_session_date; 186-192 add the future-only rule
parse_session_to_reminder(s, t) ==
    LET session_start == parse_session_date(s)
    IN  IF session_start \in {Null, Raise} THEN session_start
        ELSE IF session_start <= t THEN Null
        ELSE IF session_start - FiveMinutes <= t THEN Null
        ELSE session_start - FiveMinutes

end_ampm_for_end(s) == IF s.eap = "" THEN (IF s.eh = 12 THEN "pm" ELSE "am") ELSE s.eap

parse_session_end_date(s) ==
    IF s.shape \in {"nocomma", "empty"} THEN Null
    ELSE IF s.shape = "nodash" THEN Raise
    ELSE LET hour == To24(s.eh, end_ampm_for_end(s))
         IN  IF s.date = BadDate THEN Null
             ELSE Replace(s.date, hour)

parse_session_to_end_reminder(s, t) ==
    LET session_end == parse_session_end_date(s)
    IN  IF session_end \in {Null, Raise} THEN session_end
        ELSE IF session_end <= t THEN Null
        ELSE IF session_end - FiveMinutes <= t THEN Null
        ELSE session_end - FiveMinutes

(***************************************************************************)
(* Sequence helpers.                                                       *)
(***************************************************************************)
Range(f) == {f[i] : i \in DOMAIN f}

\* the elements of f at the indices in keep, in order
SelectIdx(f, keep) ==
    LET F[i \in 0..Len(f)] ==
            IF i = 0 THEN <<>>
            ELSE IF i \in keep THEN Append(F[i - 1], f[i]) ELSE F[i - 1]
    IN  F[Len(f)]

\* the concatenation of the sequences ff[1], ff[2], ...
Flatten(ff) ==
    LET F[i \in 0..Len(ff)] == IF i = 0 THEN <<>> ELSE F[i - 1] \o ff[i]
    IN  F[Len(ff)]

\* the sequences that list the set S once each, in any order: list(set(...))
Perms(S) ==
    {f \in [1..Cardinality(S) -> S] : \A i, j \in 1..Cardinality(S) : i # j => f[i] # f[j]}

BoundedSeq(S, n) == UNION {[1..k -> S] : k \in 0..n}

session_strings(sessions) == {sessions[i].session : i \in DOMAIN sessions}

(***************************************************************************)
(* storage.py                                                              *)
(*                                                                         *)
(* A session file that holds a JSON list is the sequence of its entries.   *)
(* An entry that is a JSON object with a 'session' string is a session     *)
(* record; a key the object lacks has the value Missing.  Any other entry  *)
(* is a Malformed record, whose session tells what is wrong with it:       *)
(* "notdict" (not an object), "nosession" (an object without a 'session'   *)
(* key, or with one that is not a string) or "empty" (the empty string).   *)
(* A file that json.load rejects, or that holds a JSON object or string,   *)
(* is UnreadableFile; one that holds null, a number or a boolean is        *)
(* ScalarFile.  A file that does not exist reads like the empty list.      *)
(***************************************************************************)
Malformed(shape) ==
    [session |-> [shape |-> shape, sh |-> 0, sap |-> "", eh |-> 0, eap |-> "", date |-> 0],
     start_time |-> Missing, reminder_time |-> Missing,
     end_time |-> Missing, end_reminder_time |-> Missing,
     notified |-> FALSE, reminder_sent |-> FALSE, end_sent |-> FALSE]

UnreadableFile == <<Malformed("unreadable")>>

ScalarFile == <<Malformed("scalar")>>

\* lines 57, 126: enumerate(sessions) raises TypeError, which lines 85, 154 do not catch
LoadRaises(file) == file = ScalarFile

\* lines 59-68: the entry is a dict and its 'session' is a non-empty str
ValidEntry(entry) == entry.session.shape \notin {"notdict", "nosession", "empty"}

\* the bug of C18's mutant: a later entry replaces an earlier one of the same string
FirstOccurrence_last(sessions, i) ==
    \A j \in (i + 1)..Len(sessions) : sessions[j].session # sessions[i].session

\* lines 53-75: keep the first entry of each session string, in file order
FirstOccurrence(sessions, i) ==
    \A j \in 1..(i - 1) : sessions[j].session # sessions[i].session

\* the list a load returns when it does not raise
LoadedEntries(file) ==
    IF file \in {UnreadableFile, ScalarFile} THEN <<>>
    ELSE SelectIdx(file, {i \in DOMAIN file : ValidEntry(file[i]) /\ FirstOccurrence(file, i)})

load_scheduled_sessions(file) == LoadedEntries(file)

\* the bug of C6's mutant: the archive is read as empty, so a save overwrites it
load_past_scheduled_sessions_empty(file) ==
    <<>>

load_past_scheduled_sessions(file) == LoadedEntries(file)

\* The list this file holds is only ever read as set(last_sessions), main.py line 362,
\* so the file is kept as the set of the strings in it.
load_last_extracted_sessions(file) == file

(***************************************************************************)
(* What an operation does to the world, in program order: the messages it  *)
(* hands to send_discord_notification and the files it rewrites.           *)
(***************************************************************************)
Send(s, kind) == [op |-> "send", s |-> s, kind |-> kind, val |-> <<>>]
save_scheduled_sessions(sessions) ==
    [op |-> "save_scheduled", s |-> <<>>, kind |-> "", val |-> sessions]
save_past_scheduled_sessions(sessions) ==
    [op |-> "save_past", s |-> <<>>, kind |-> "", val |-> sessions]
save_last_extracted_sessions(sessions) ==
    [op |-> "save_last", s |-> <<>>, kind |-> "", val |-> Range(sessions)]

Disk(sf, pf, lf, st) == [scheduled |-> sf, past |-> pf, last |-> lf, sent |-> st]

ApplyEffect(d, e) ==
    CASE e.op = "send" -> [d EXCEPT !.sent[<<e.s, e.kind>>] = @ + 1]
      [] e.op = "save_scheduled" -> [d EXCEPT !.scheduled = e.val]
      [] e.op = "save_past" -> [d EXCEPT !.past = e.val]
      [] e.op = "save_last" -> [d EXCEPT !.last = e.val]

\* the world after the first k effects
ApplyEffects(d, effects, k) ==
    LET F[i \in 0..k] == IF i = 0 THEN d ELSE ApplyEffect(F[i - 1], effects[i])
    IN  F[k]

(***************************************************************************)
(* notifier.py: check_and_send_notifications                               *)
(***************************************************************************)
\* the bug of C36's mutant: the sweep leaves the announcement out
AnnouncementDue_never(session, t) ==
    FALSE

\* the bug of C8's mutant: the sweep announces whenever the record is not yet notified
AnnouncementDue_unguarded(session, t) ==
    ~session.notified

AnnouncementDue(session, t) ==
    ~session.notified /\ session.start_time > t

\* the bug of C9's mutant: the start reminder is not held back once the session started
ReminderDue_after_start(session, t) ==
    /\ session.reminder_time # Null
    /\ ~session.reminder_sent
    /\ session.reminder_time <= t

ReminderDue(session, t) ==
    /\ session.reminder_time # Null
    /\ ~session.reminder_sent
    /\ session.reminder_time <= t
    /\ session.start_time > t

EndReminderDue(session, t) ==
    /\ session.end_reminder_time # Null
    /\ ~session.end_sent
    /\ session.end_reminder_time <= t
    /\ session.end_time > t

Ended(session, t) == session.end_time <= t

\* lines 24-51: whether the message reaches Discord.  No URL: logged, return (27-29);
\* a failed post: the exception is caught and logged (48-51).  The call returns None
\* in every case and never raises.
send_discord_notification(webhook) == webhook = "up"

\* the bug of C11's mutant: the flag is set only when the message was delivered
FlagAfterSend_if_delivered(flag, due) ==
    flag \/ (due /\ send_discord_notification(discord))

\* lines 93-94, 102-103, 111-112 (and main.py 476-477): the flag after a due message
\* was handed to send_discord_notification
FlagAfterSend(flag, due) ==
    flag \/ due

\* one pass of the loop body, lines 78-119
SweepSession(session, t) ==
    LET a == AnnouncementDue(session, t)
        r == ReminderDue(session, t)
        e == EndReminderDue(session, t)
    IN  [session |-> [session EXCEPT !.notified = FlagAfterSend(@, a),
                                     !.reminder_sent = FlagAfterSend(@, r),
                                     !.end_sent = FlagAfterSend(@, e)],
         sends |-> (IF a THEN <<Send(session.session, "date_time")>> ELSE <<>>)
                   \o (IF r THEN <<Send(session.session, "5min_delta")>> ELSE <<>>)
                   \o (IF e THEN <<Send(session.session, "end_state")>> ELSE <<>>),
         moved |-> Ended(session, t)]

\* the bug of C3's mutant: an ended session is appended to the archive and not removed
MovedOut_copied(after, swept) ==
    after

\* line 118: what is left of the active list
MovedOut(after, swept) ==
    SelectIdx(after, {i \in DOMAIN after : ~swept[i].moved})

\* lines 78-80: session['start_time'], session['end_time'] raise KeyError
SweepRaises(session) == session.start_time = Missing \/ session.end_time = Missing

\* The effects in program order, and whether an exception ended the sweep after
\* them: the messages of the records before the one that raised were sent, and
\* nothing was saved.
check_and_send_notifications(d, t) ==
    IF LoadRaises(d.scheduled) \/ LoadRaises(d.past) THEN [effects |-> <<>>, raised |-> TRUE]
    ELSE
    LET scheduled_sessions == load_scheduled_sessions(d.scheduled)
        past_sessions == load_past_scheduled_sessions(d.past)
        raising == {i \in DOMAIN scheduled_sessions : SweepRaises(scheduled_sessions[i])}
        reached == {i \in DOMAIN scheduled_sessions : \A j \in raising : i < j}
        swept == [i \in DOMAIN scheduled_sessions |->
                    IF i \in reached THEN SweepSession(scheduled_sessions[i], t)
                    ELSE [session |-> scheduled_sessions[i], sends |-> <<>>, moved |-> FALSE]]
        after == [i \in DOMAIN swept |-> swept[i].session]
        sends == Flatten([i \in DOMAIN swept |-> swept[i].sends])
        kept == MovedOut(after, swept)
        moved == SelectIdx(after, {i \in DOMAIN after : swept[i].moved})
    IN  IF raising # {} THEN [effects |-> sends, raised |-> TRUE]
        ELSE [effects |-> sends \o <<save_scheduled_sessions(kept),
                                      save_past_scheduled_sessions(past_sessions \o moved)>>,
              raised |-> FALSE]

(***************************************************************************)
(* main.py: one iteration of the poll loop, lines 283-672                  *)
(***************************************************************************)
HourOf(t) == (t % UnitsPerDay) \div UnitsPerHour

should_check_x(t) == HourOf(t) = 11 \/ HourOf(t) = 20

\* lines 451-460, 477
NewSessionData(session_str, t, notified) ==
    [session |-> session_str,
     start_time |-> parse_session_date(session_str),
     reminder_time |-> parse_session_to_reminder(session_str, t),
     end_time |-> parse_session_end_date(session_str),
     end_reminder_time |-> parse_session_to_end_reminder(session_str, t),
     notified |-> notified,
     reminder_sent |-> FALSE,
     end_sent |-> FALSE]

ParseRaises(session_str, t) ==
    Raise \in {parse_session_date(session_str), parse_session_to_reminder(session_str, t),
               parse_session_end_date(session_str), parse_session_to_end_reminder(session_str, t)}

\* lines 411-414: the first record of that string gets its flags reset
ResetFlags(sessions, session_str) ==
    [i \in DOMAIN sessions |->
        IF sessions[i].session = session_str
           /\ \A j \in 1..(i - 1) : sessions[j].session # session_str
        THEN [sessions[i] EXCEPT !.notified = FALSE, !.reminder_sent = FALSE, !.end_sent = FALSE]
        ELSE sessions[i]]

\* the bug of C5's mutant: the flag reset of test mode also runs in normal mode
ReprocessTracked_always(tm, session_str, tracked_session_strings) ==
    session_str \in tracked_session_strings

ReprocessTracked(tm, session_str, tracked_session_strings) ==
    tm /\ session_str \in tracked_session_strings

\* the bug of C1's mutant: the loop no longer skips a string that has an active record
AlreadyScheduled_never(session_str, tracked_session_strings) ==
    FALSE

AlreadyScheduled(session_str, tracked_session_strings) ==
    session_str \in tracked_session_strings

\* the bug of C2's mutant: the loop no longer skips a string that has an archived record
AlreadyPast_never(session_str, past_session_strings) ==
    FALSE

AlreadyPast(session_str, past_session_strings) ==
    session_str \in past_session_strings

AnnounceAtCreation(is_next, tm) == is_next \/ tm

\* lines 432-448: the parsed times the loop refuses
RejectedTimes(start_time, end_time) ==
    start_time = Null \/ end_time = Null \/ end_time - start_time < 0

\* lines 408-486 for one session string; acc is the loop's state so far
ProcessSession(acc, session_str, past_session_strings, is_next, tm, t) ==
    IF acc.raised THEN acc
    ELSE IF ReprocessTracked(tm, session_str, acc.tracked)
    THEN [acc EXCEPT !.scheduled = ResetFlags(@, session_str)]
    ELSE IF AlreadyScheduled(session_str, acc.tracked) THEN acc
    ELSE IF AlreadyPast(session_str, past_session_strings) THEN acc
    ELSE IF ParseRaises(session_str, t) THEN [acc EXCEPT !.raised = TRUE]
    ELSE IF RejectedTimes(parse_session_date(session_str), parse_session_end_date(session_str))
    THEN acc
    ELSE LET announce == AnnounceAtCreation(is_next, tm)
         IN  [acc EXCEPT
                !.scheduled = Append(@, NewSessionData(session_str, t,
                                                       FlagAfterSend(FALSE, announce))),
                !.tracked = @ \cup {session_str},
                !.effects = @ \o (IF announce THEN <<Send(session_str, "date_time")>>
                                  ELSE <<>>)]

\* lines 284-330: what the two scrapers give this iteration
CurrentSessions(website_sessions, x_sessions) ==
    website_sessions \o SelectSeq(x_sessions, LAMBDA s : s \notin Range(website_sessions))

\* lines 358-363
NewSessions(d, current_sessions) ==
    Range(current_sessions) \ load_last_extracted_sessions(d.last)

\* lines 386-388
MissingSessions(current_sessions, tracked_session_strings, past_session_strings) ==
    SelectSeq(current_sessions,
              LAMBDA s : s \notin tracked_session_strings /\ s \notin past_session_strings)

\* the bug of C35's mutant: the iteration goes on when nothing was extracted
NothingExtracted_never(current_sessions) ==
    FALSE

\* line 353, 'if current_sessions:', and its else branch, lines 667-668
NothingExtracted(current_sessions) ==
    current_sessions = <<>>

\* lines 353-666.  new_order is list(new_sessions), the order Python gives the set.
\* The result: the effects in program order, and whether an exception ended the
\* iteration (and with it the process) after them.
poll_iteration(d, t, tm, current_sessions, is_next, new_order) ==
    IF NothingExtracted(current_sessions) THEN [effects |-> <<>>, raised |-> FALSE]
    ELSE IF LoadRaises(d.scheduled) \/ LoadRaises(d.past)
    THEN [effects |-> <<>>, raised |-> TRUE]
    ELSE
    LET new_sessions == NewSessions(d, current_sessions)
        scheduled_sessions == load_scheduled_sessions(d.scheduled)
        past_sessions == load_past_scheduled_sessions(d.past)
        tracked_session_strings == session_strings(scheduled_sessions)
        past_session_strings == session_strings(past_sessions)
        sessions_to_process ==
            IF new_sessions # {} \/ tm
            THEN (IF tm THEN current_sessions ELSE new_order)
            ELSE MissingSessions(current_sessions, tracked_session_strings,
                                 past_session_strings)
        loop[i \in 0..Len(sessions_to_process)] ==
            IF i = 0
            THEN [scheduled |-> scheduled_sessions, tracked |-> tracked_session_strings,
                  effects |-> <<>>, raised |-> FALSE]
            ELSE ProcessSession(loop[i - 1], sessions_to_process[i], past_session_strings,
                                is_next, tm, t)
        done == loop[Len(sessions_to_process)]
        creation ==
            IF sessions_to_process = <<>> THEN <<>>
            ELSE IF done.raised THEN done.effects
            ELSE done.effects \o <<save_scheduled_sessions(done.scheduled),
                                   save_past_scheduled_sessions(past_sessions)>>
        d1 == ApplyEffects(d, creation, Len(creation))
        sweep == check_and_send_notifications(d1, t)
    IN  IF sessions_to_process # <<>> /\ done.raised
        THEN [effects |-> creation, raised |-> TRUE]
        ELSE IF sweep.raised
        THEN [effects |-> creation \o sweep.effects, raised |-> TRUE]
        ELSE [effects |-> creation \o sweep.effects
                          \o <<save_last_extracted_sessions(current_sessions)>>,
              raised |-> FALSE]

(***************************************************************************)
(* validator.py: the startup reconciler                                    *)
(***************************************************************************)
\* line 69: re.match(r'(\d+)(am|pm)?-(\d+)(am|pm)', session_str)
TimeRangeMatches(s) == s.shape = "ok" /\ s.eap # ""

DurationError(session_data) ==
    \/ session_data.end_time - session_data.start_time < 0
    \/ session_data.end_time - session_data.start_time > MaxDurationHours * UnitsPerHour

EndHourError(session_data) ==
    LET s == session_data.session
    IN  TimeRangeMatches(s) /\ HourOf(session_data.end_time) # To24(s.eh, s.eap)

StartHourError(session_data) ==
    LET s == session_data.session
        actual_start_ampm == IF s.sap # "" THEN s.sap ELSE s.eap
    IN  TimeRangeMatches(s)
        /\ HourOf(session_data.start_time) # To24(s.sh, actual_start_ampm)

\* lines 47-49 and 107-109: no session string, or a time field that is not there
Unvalidatable(session_data) ==
    \/ session_data.session.shape = "empty"
    \/ session_data.start_time = Missing
    \/ session_data.end_time = Missing

\* is_valid of validate_session_times
validate_session_times(session_data) ==
    /\ ~Unvalidatable(session_data)
    /\ ~(DurationError(session_data) \/ EndHourError(session_data)
         \/ StartHourError(session_data))

\* a time field is overwritten only when the parser gives a time
Corrected(old, fresh) == IF fresh = Null THEN old ELSE fresh

\* the bug of C23's mutant: the corrected record is built anew, as at creation
correct_session_data_reset(session_data, t) ==
    NewSessionData(session_data.session, t, FALSE)

correct_session_data(session_data, t) ==
    LET s == session_data.session
    IN  [session_data EXCEPT
            !.start_time = Corrected(@, parse_session_date(s)),
            !.reminder_time = Corrected(@, parse_session_to_reminder(s, t)),
            !.end_time = Corrected(@, parse_session_end_date(s)),
            !.end_reminder_time = Corrected(@, parse_session_to_end_reminder(s, t))]

\* lines 209-213: sorted(..., key=start_time, reverse=True), a stable sort
SortedByStartDesc(sessions) ==
    LET rank(i) == 1 + Cardinality({j \in DOMAIN sessions :
                        \/ sessions[j].start_time > sessions[i].start_time
                        \/ (sessions[j].start_time = sessions[i].start_time /\ j < i)})
    IN  [k \in DOMAIN sessions |-> sessions[CHOOSE i \in DOMAIN sessions : rank(i) = k]]

\* validate_and_correct_sessions_file: whether it rewrites the file (its return value)
\* and the list it then writes.  An exception (lines 257-265) leaves the file as it
\* was, unopened for writing: json.load rejects the file; the file holds no list; an
\* entry is no dict (s.get at line 211) or has no 'session' string (line 126, or
\* re.match at line 69); an entry lacks start_time or end_time (log_correction_details,
\* lines 170-173); a parser raises while correcting.
Validation(file, t) ==
    LET Of(sorted_sessions) ==
            LET corrections_made ==
                    \E i \in DOMAIN sorted_sessions :
                        ~validate_session_times(sorted_sessions[i])
                raised ==
                    \/ file \in {UnreadableFile, ScalarFile}
                    \/ \E i \in DOMAIN file :
                          file[i].session.shape \in {"notdict", "nosession"}
                    \/ \E i \in DOMAIN file :
                          Missing \in {file[i].start_time, file[i].end_time}
                    \/ \E i \in DOMAIN sorted_sessions :
                          /\ ~validate_session_times(sorted_sessions[i])
                          /\ ParseRaises(sorted_sessions[i].session, t)
                corrected_sessions ==
                    [i \in DOMAIN sorted_sessions |->
                        IF validate_session_times(sorted_sessions[i])
                        THEN sorted_sessions[i]
                        ELSE correct_session_data(sorted_sessions[i], t)]
            IN  [corrections_made |-> file # <<>> /\ corrections_made /\ ~raised,
                 corrected_sessions |-> corrected_sessions]
    IN  CHOOSE validation \in {Of(sorted_sessions) :
                                  sorted_sessions \in {SortedByStartDesc(file)}} : TRUE

\* the file after the call: rewritten (lines 248-250) when corrections were made
validate_and_correct_sessions_file(file, t) ==
    CHOOSE after \in {IF validation.corrections_made THEN validation.corrected_sessions
                      ELSE file : validation \in {Validation(file, t)}} : TRUE

\* lines 343-355: the scheduled file, then the past file
run_startup_validation(d, t) ==
    LET Writes(scheduled, past) ==
            (IF scheduled.corrections_made
             THEN <<save_scheduled_sessions(scheduled.corrected_sessions)>> ELSE <<>>)
            \o (IF past.corrections_made
                THEN <<save_past_scheduled_sessions(past.corrected_sessions)>> ELSE <<>>)
    IN  CHOOSE effects \in {Writes(scheduled, past) :
                               scheduled \in {Validation(d.scheduled, t)},
                               past \in {Validation(d.past, t)}} : TRUE

(***************************************************************************)
(* main.py: the startup update, lines 151-271                              *)
(***************************************************************************)
\* lines 190-193
CleanupMoves(session, website_session_set, t) ==
    session.session \notin website_session_set /\ session.end_time <= t

\* line 192: session['end_time'] raises KeyError
CleanupRaises(session, website_session_set) ==
    session.session \notin website_session_set /\ session.end_time = Missing

\* lines 213-248 for one missing string; acc is the loop's state so far
RecoverSession(acc, session_str, startup_past_sessions, t) ==
    IF acc.raised THEN acc
    ELSE IF ParseRaises(session_str, t) THEN [acc EXCEPT !.raised = TRUE]
    ELSE IF parse_session_date(session_str) = Null
            \/ parse_session_end_date(session_str) = Null
    THEN acc
    ELSE LET in_past == {i \in DOMAIN startup_past_sessions :
                            startup_past_sessions[i].session = session_str}
             fresh == NewSessionData(session_str, t, FALSE)
         IN  IF in_past = {}
             THEN [acc EXCEPT !.scheduled = Append(@, fresh)]
             ELSE LET existing_in_past ==
                          startup_past_sessions[CHOOSE i \in in_past :
                                                    \A j \in in_past : i <= j]
                  IN  [acc EXCEPT !.scheduled = Append(@,
                          [fresh EXCEPT !.notified = existing_in_past.notified,
                                        !.reminder_sent = existing_in_past.reminder_sent,
                                        !.end_sent = existing_in_past.end_sent])]

\* html is whether the page was fetched; an exception inside is caught at line 270
startup_update(d, t, html, startup_current_sessions) ==
    IF ~html THEN <<>>
    ELSE IF LoadRaises(d.scheduled) \/ LoadRaises(d.past) THEN <<>>
    ELSE
    LET startup_scheduled_sessions == load_scheduled_sessions(d.scheduled)
        startup_past_sessions == load_past_scheduled_sessions(d.past)
        startup_tracked_strings == session_strings(startup_scheduled_sessions)
        startup_past_strings == session_strings(startup_past_sessions)
        missing_from_tracking ==
            SelectSeq(startup_current_sessions,
                      LAMBDA s : s \notin startup_tracked_strings
                                 /\ s \notin startup_past_strings)
        website_session_set == Range(startup_current_sessions)
        moves(i) == CleanupMoves(startup_scheduled_sessions[i], website_session_set, t)
        kept == SelectIdx(startup_scheduled_sessions,
                          {i \in DOMAIN startup_scheduled_sessions : ~moves(i)})
        past1 == startup_past_sessions
                 \o SelectIdx(startup_scheduled_sessions,
                              {i \in DOMAIN startup_scheduled_sessions : moves(i)})
        sessions_moved_to_past == \E i \in DOMAIN startup_scheduled_sessions : moves(i)
        loop[i \in 0..Len(missing_from_tracking)] ==
            IF i = 0 THEN [scheduled |-> kept, raised |-> FALSE]
            ELSE RecoverSession(loop[i - 1], missing_from_tracking[i], past1, t)
        done == loop[Len(missing_from_tracking)]
    IN  IF \E i \in DOMAIN startup_scheduled_sessions :
                CleanupRaises(startup_scheduled_sessions[i], website_session_set)
        THEN <<>>
        ELSE IF missing_from_tracking # <<>>
        THEN (IF done.raised THEN <<>>
              ELSE <<save_scheduled_sessions(done.scheduled),
                     save_past_scheduled_sessions(past1)>>)
        ELSE IF sessions_moved_to_past
        THEN <<save_scheduled_sessions(kept), save_past_scheduled_sessions(past1)>>
        ELSE <<>>

\* main() from its first line to the poll loop, lines 142-271
startup(d, t, html, startup_current_sessions) ==
    LET validation == run_startup_validation(d, t)
    IN  CHOOSE effects \in {validation \o startup_update(d1, t, html, startup_current_sessions) :
                               d1 \in {ApplyEffects(d, validation, Len(validation))}} : TRUE

(***************************************************************************)
(* The process and its environment.                                        *)
(***************************************************************************)
TheDisk == Disk(scheduled_file, past_file, last_extracted_file, sent)

\* what extract_sessions and extract_sessions_from_tweets can return:
\* list(set(found)) for the strings found in the text
Extracted(n) ==
    UNION {Perms(Range(found)) : found \in BoundedSeq(published, n)}

Extractions == Extracted(MaxFound)

XExtractions == Extracted(MaxXFound)

\* the sets of strings a run may publish
Universes == {{S_8_9pm, S_9_10pm}, {S_9_10pm, S_11_1pm}}

WithinSentBound(d) == \A k \in DOMAIN d.sent : d.sent[k] <= MaxSent

\* the world becomes d; Discord accepts the messages sent on the way if it is up
Becomes(d) ==
    /\ WithinSentBound(d)
    /\ scheduled_file' = d.scheduled
    /\ past_file' = d.past
    /\ last_extracted_file' = d.last
    /\ sent' = d.sent
    /\ delivered' = IF send_discord_notification(discord)
                    THEN [k \in DOMAIN delivered |-> delivered[k] + d.sent[k] - sent[k]]
                    ELSE delivered

\* the main thread holds no unfinished work; the test script has not been run
NoWork == [effects |-> <<>>, open |-> FALSE]

NotRun == [pc |-> "idle", loaded |-> <<>>]

\* the world before the first start: no file exists yet (storage.py treats a missing
\* file as empty), nothing has been sent
InitIn(universes, webhooks) ==
    /\ scheduled_file = <<>>
    /\ past_file = <<>>
    /\ last_extracted_file = {}
    /\ now = FirstBoot
    /\ pc = "down"
    /\ session_type = "none"
    /\ test_mode = FALSE
    /\ x_enabled = TRUE
    /\ published \in universes
    /\ sent = [k \in (Strings \cup published) \X Kinds |-> 0]
    /\ discord \in webhooks
    /\ delivered = sent
    /\ inflight = NoWork
    /\ other = NotRun
    /\ single_run = FALSE

InitWith(universes) == InitIn(universes, {"up"})

Init == InitWith(Universes)

\* the clock readings at which the process may start, given that it went down at t
StartTimes(t) ==
    {u \in t..(t + MaxDowntime) : u <= MaxTime /\ (u - FirstBoot) % SleepUnits <= MaxPhase}

\* the process starts, some time after it went down, and runs up to the poll loop
Startup ==
    /\ pc = "down"
    /\ \E t \in StartTimes(now), html \in BOOLEAN, found \in Extractions :
          /\ html \/ found = <<>>
          /\ \E effects \in {startup(TheDisk, t, html, found)} :
               \E d2 \in {ApplyEffects(TheDisk, effects, Len(effects))} : Becomes(d2)
          /\ now' = t
    /\ pc' = "poll"
    /\ session_type' = "none"
    /\ UNCHANGED env

\* the scrapers' results of one iteration: <<session_type, website_sessions, x_sessions>>
WebsiteResults ==
    {<<"none", <<>>>>} \cup ({"next", "last"} \X Extractions)

XResults(t, xe) ==
    IF xe /\ should_check_x(t) THEN {<<"none", <<>>>>} \cup ({"next"} \X XExtractions)
    ELSE {<<"none", <<>>>>}

\* one iteration of the poll loop, the scrapers' results being drawn from webs and xs
Iteration(webs, xs) ==
    /\ pc = "poll"
    /\ \E web \in webs, x \in xs :
          LET current_sessions == CurrentSessions(web[2], x[2])
              type == IF x[1] = "next" THEN "next" ELSE web[1]
          IN  \E new_order \in Perms(NewSessions(TheDisk, current_sessions)) :
                \E it \in {poll_iteration(TheDisk, now, test_mode, current_sessions,
                                         type = "next", new_order)} :
                  \E d2 \in {ApplyEffects(TheDisk, it.effects, Len(it.effects))} :
                    /\ Becomes(d2)
                    /\ pc' = IF it.raised THEN "dead"
                             ELSE IF single_run THEN "done" ELSE "sleep"
                    /\ session_type' = type
    /\ UNCHANGED <<now, env>>

PollIteration == Iteration(WebsiteResults, XResults(now, x_enabled))

\* time.sleep(3600), line 678
Sleep ==
    /\ pc = "sleep"
    /\ now + SleepUnits <= MaxTime
    /\ now' = now + SleepUnits
    /\ pc' = "poll"
    /\ UNCHANGED <<scheduled_file, past_file, last_extracted_file, session_type, sent,
                   delivered, env>>

\* the process is stopped while it sleeps, or has ended: with an exception, or at
\* the break of line 672
Stop ==
    /\ pc \in {"sleep", "dead", "done"}
    /\ pc' = "down"
    /\ UNCHANGED <<scheduled_file, past_file, last_extracted_file, now, session_type, sent,
                   delivered, env>>

Next == Startup \/ PollIteration \/ Sleep \/ Stop

Spec == Init /\ [][Next]_vars

(***************************************************************************)
(* The same process when it may also be stopped between two operations of  *)
(* an iteration or of the startup: only the first k effects reach the      *)
(* world.                                                                  *)
(***************************************************************************)
StopInIteration ==
    /\ pc = "poll"
    /\ \E web \in WebsiteResults, x \in XResults(now, x_enabled) :
          LET current_sessions == CurrentSessions(web[2], x[2])
              type == IF x[1] = "next" THEN "next" ELSE web[1]
          IN  \E new_order \in Perms(NewSessions(TheDisk, current_sessions)) :
                \E it \in {poll_iteration(TheDisk, now, test_mode, current_sessions,
                                         type = "next", new_order)} :
                  \E k \in 0..(Len(it.effects) - 1) :
                    \E d2 \in {ApplyEffects(TheDisk, it.effects, k)} :
                      /\ Becomes(d2)
                      /\ session_type' = type
    /\ pc' = "down"
    /\ UNCHANGED <<now, env>>

StopInStartup ==
    /\ pc = "down"
    /\ \E t \in StartTimes(now), html \in BOOLEAN, found \in Extractions :
          /\ html \/ found = <<>>
          /\ \E effects \in {startup(TheDisk, t, html, found)} :
               \E k \in 0..(Len(effects) - 1) :
                 \E d2 \in {ApplyEffects(TheDisk, effects, k)} : Becomes(d2)
          /\ now' = t
    /\ pc' = "down"
    /\ session_type' = "none"
    /\ UNCHANGED env

NextStopAnywhere == Next \/ StopInIteration \/ StopInStartup

\* the sets of strings a run of this wider process may publish
StopUniverses == {{S_8_9pm}, {S_9_10pm}, {S_11_1pm}}

InitStopAnywhere == InitWith(StopUniverses)

SpecStopAnywhere == InitStopAnywhere /\ [][NextStopAnywhere]_vars

(***************************************************************************)
(* The process left running, started once and never stopped, when every    *)
(* fetch succeeds and the page lists every published session at every      *)
(* iteration; X.com adds nothing.                                          *)
(***************************************************************************)
ListedResults == {web \in WebsiteResults : Range(web[2]) = published}

PollIterationListed == Iteration(ListedResults, {<<"none", <<>>>>})

NextHourly == Startup \/ PollIterationListed \/ Sleep

HourlyUniverses == {{S_8_9pm}, {S_9_10pm}, {S_8_9pm, S_9_10pm}}

InitHourly == InitWith(HourlyUniverses)

SpecHourly == InitHourly /\ [][NextHourly]_vars

(***************************************************************************)
(* The process in either mode: SINGLE_RUN is set for the whole run, as by  *)
(* a scheduler that starts the program again and again, or it is not.      *)
(***************************************************************************)
OnceUniverses == {{S_9_10pm}}

InitOnce ==
    /\ scheduled_file = <<>>
    /\ past_file = <<>>
    /\ last_extracted_file = {}
    /\ now = FirstBoot
    /\ pc = "down"
    /\ session_type = "none"
    /\ test_mode = FALSE
    /\ x_enabled = TRUE
    /\ published \in OnceUniverses
    /\ sent = [k \in Strings \X Kinds |-> 0]
    /\ discord = "up"
    /\ delivered = sent
    /\ inflight = NoWork
    /\ other = NotRun
    /\ single_run \in BOOLEAN

SpecOnce == InitOnce /\ [][Next]_vars

(***************************************************************************)
(* The process left running while Discord is unreachable: the webhook URL  *)
(* is unset for the whole run, or the post fails during an outage that     *)
(* ends while the process sleeps.                                          *)
(***************************************************************************)
OutageEnds ==
    /\ pc = "sleep"
    /\ discord = "down"
    /\ discord' = "up"
    /\ UNCHANGED <<scheduled_file, past_file, last_extracted_file, now, pc, session_type,
                   sent, delivered, test_mode, x_enabled, published, inflight, other,
                   single_run>>

NextDelivery == Startup \/ PollIteration \/ Sleep \/ OutageEnds

DeliveryUniverses == {{S_8_9pm, S_9_10pm}}

InitDelivery == InitIn(DeliveryUniverses, {"down", "unset"})

SpecDelivery == InitDelivery /\ [][NextDelivery]_vars

(***************************************************************************)
(* The time resolver at work: the process is started once on empty files   *)
(* and runs one iteration, the page carrying one session string whose time *)
(* range is any pair of numerals with any written or absent meridiems.     *)
(***************************************************************************)
TwelveHours == 12

MaxNumeral == 13

Meridiems == {"", "am", "pm"}

\* the time ranges the scrapers' pattern \d+(?:am|pm)?-\d+(?:am|pm)? lets through
Texts ==
    {Str(sh, sap, eh, eap, 0) : sh \in 1..MaxNumeral, eh \in 1..MaxNumeral,
                                sap \in Meridiems, eap \in Meridiems}

ResolveUniverses == {{s} : s \in Texts}

InitResolve == InitWith(ResolveUniverses)

NextResolve == Startup \/ PollIterationListed

SpecResolve == InitResolve /\ [][NextResolve]_vars

(***************************************************************************)
(* The store at work: the process is started on session files that were    *)
(* damaged since an earlier run left them, and runs one iteration.  The    *)
(* earlier run stored "8-9pm" and "9-10pm" an hour before FirstBoot.       *)
(***************************************************************************)
MaxEntries == 2

MaxPastEntries == 2

rec_8_9pm == NewSessionData(S_8_9pm, FirstBoot - SleepUnits, TRUE)

rec_9_10pm == NewSessionData(S_9_10pm, FirstBoot - SleepUnits, TRUE)

\* what a file's list may hold: the records, a second entry for "8-9pm" that is not
\* announced, the record of "9-10pm" without its start_time, and malformed entries
Entries ==
    {rec_8_9pm, [rec_8_9pm EXCEPT !.notified = FALSE],
     rec_9_10pm, [rec_9_10pm EXCEPT !.start_time = Missing],
     Malformed("notdict"), Malformed("nosession"), Malformed("empty")}

ScheduledFiles == BoundedSeq(Entries, MaxEntries) \cup {UnreadableFile, ScalarFile}

PastFiles ==
    BoundedSeq({rec_8_9pm, Malformed("notdict")}, MaxPastEntries)
        \cup {UnreadableFile, ScalarFile}

InitStore ==
    /\ scheduled_file \in ScheduledFiles
    /\ past_file \in PastFiles
    /\ last_extracted_file = {}
    /\ now = FirstBoot
    /\ pc = "down"
    /\ session_type = "none"
    /\ test_mode = FALSE
    /\ x_enabled = TRUE
    /\ published = {S_8_9pm, S_9_10pm}
    /\ sent = [k \in Strings \X Kinds |-> 0]
    /\ discord = "up"
    /\ delivered = sent
    /\ inflight = NoWork
    /\ other = NotRun
    /\ single_run = FALSE

NextStore == Startup \/ PollIterationListed

SpecStore == InitStore /\ [][NextStore]_vars

(***************************************************************************)
(* The process while test_reminder_notifications.py adds a test session to *)
(* the scheduled file.  Two sequences of loads and saves then run side by  *)
(* side, and here the script is even given the lock of the process, as if  *)
(* it were a second thread of it.  storage.py takes json_lock inside each  *)
(* load and each save and releases it when that call returns, so a load    *)
(* and a save of storage.py are one step each, and any step of one         *)
(* sequence may fall between a load and the save that follows it in the    *)
(* other.  validator.py opens and writes the files without the lock: its   *)
(* write is two steps, open(file_path, 'w'), which empties the file, and   *)
(* json.dump.  The startup update is taken as one step.                    *)
(***************************************************************************)
TestStartIn == 2

TestEndIn == 3

TestDuration == 2

TestStartedAgo == 1

\* strftime('%-I') and strftime('%p').lower()
Hour12(t) == IF HourOf(t) % TwelveHours = 0 THEN TwelveHours ELSE HourOf(t) % TwelveHours

AmPm(t) == IF HourOf(t) < TwelveHours THEN "am" ELSE "pm"

\* the date part ends in "[START-TEST]" or "[END-TEST]", which strptime rejects
create_test_session(t, start_offset, end_offset) ==
    [session |-> Str(Hour12(t + start_offset), "", Hour12(t + end_offset),
                     AmPm(t + end_offset), BadDate),
     start_time |-> t + start_offset,
     reminder_time |-> t + start_offset - FiveMinutes,
     end_time |-> t + end_offset,
     end_reminder_time |-> t + end_offset - FiveMinutes,
     notified |-> TRUE,
     reminder_sent |-> FALSE,
     end_sent |-> FALSE]

TestModes == {"start_only", "end_only"}

\* main(), lines 145-184: the session the script appends
TestSession(mode, t) ==
    IF mode = "start_only"
    THEN create_test_session(t, TestStartIn, TestStartIn + TestDuration)
    ELSE [create_test_session(t, 0 - TestStartedAgo, TestEndIn) EXCEPT !.reminder_sent = TRUE]

TestStrings == {TestSession(mode, t).session : mode \in TestModes, t \in FirstBoot..MaxTime}

world == <<test_mode, x_enabled, published, discord, single_run>>

\* main.py 144: run_startup_validation reads both files and finds what to rewrite
StartupValidates ==
    /\ pc = "down"
    /\ \E t \in StartTimes(now) :
          /\ inflight' = [effects |-> run_startup_validation(TheDisk, t), open |-> FALSE]
          /\ now' = t
    /\ pc' = "validating"
    /\ UNCHANGED <<scheduled_file, past_file, last_extracted_file, session_type, sent,
                   delivered, world, other>>

\* validator.py 249: open(file_path, 'w')
ValidatorOpens ==
    /\ pc = "validating"
    /\ inflight.effects # <<>>
    /\ ~inflight.open
    /\ scheduled_file' = IF Head(inflight.effects).op = "save_scheduled"
                         THEN UnreadableFile ELSE scheduled_file
    /\ past_file' = IF Head(inflight.effects).op = "save_past"
                    THEN UnreadableFile ELSE past_file
    /\ inflight' = [inflight EXCEPT !.open = TRUE]
    /\ UNCHANGED <<last_extracted_file, now, pc, session_type, sent, delivered, world,
                   other>>

\* validator.py 250: json.dump(corrected_sessions, f, indent=2)
ValidatorDumps ==
    /\ pc = "validating"
    /\ inflight.open
    /\ \E d2 \in {ApplyEffect(TheDisk, Head(inflight.effects))} : Becomes(d2)
    /\ inflight' = [effects |-> Tail(inflight.effects), open |-> FALSE]
    /\ UNCHANGED <<now, pc, session_type, world, other>>

\* main.py 151-271
StartupUpdates ==
    /\ pc = "validating"
    /\ inflight.effects = <<>>
    /\ \E html \in BOOLEAN, found \in Extractions :
          /\ html \/ found = <<>>
          /\ \E effects \in {startup_update(TheDisk, now, html, found)} :
               \E d2 \in {ApplyEffects(TheDisk, effects, Len(effects))} : Becomes(d2)
    /\ pc' = "poll"
    /\ session_type' = "none"
    /\ UNCHANGED <<now, world, inflight, other>>

\* an iteration from its first line to the sweep's last message (notifier.py 113): the
\* lists the sweep loaded at lines 72-73 are in memory, and its saves (lines 122-123)
\* and the save of the last extraction (main.py 666) are still to come
TickLoads ==
    /\ pc = "poll"
    /\ \E web \in WebsiteResults, x \in XResults(now, x_enabled) :
          LET current_sessions == CurrentSessions(web[2], x[2])
              type == IF x[1] = "next" THEN "next" ELSE web[1]
          IN  \E new_order \in Perms(NewSessions(TheDisk, current_sessions)) :
                \E it \in {poll_iteration(TheDisk, now, test_mode, current_sessions,
                                         type = "next", new_order)} :
                  \E k \in {IF it.raised \/ it.effects = <<>> THEN Len(it.effects)
                             ELSE Len(it.effects) - 3} :
                    \E d2 \in {ApplyEffects(TheDisk, it.effects, k)} :
                      /\ Becomes(d2)
                      /\ inflight' = [effects |-> SubSeq(it.effects, k + 1, Len(it.effects)),
                                      open |-> FALSE]
                      /\ pc' = IF it.raised THEN "dead"
                               ELSE IF it.effects = <<>> THEN "sleep" ELSE "saving"
                      /\ session_type' = type
    /\ UNCHANGED <<now, world, other>>

\* the next save of the iteration
TickSaves ==
    /\ pc = "saving"
    /\ \E d2 \in {ApplyEffect(TheDisk, Head(inflight.effects))} : Becomes(d2)
    /\ inflight' = [inflight EXCEPT !.effects = Tail(@)]
    /\ pc' = IF Tail(inflight.effects) = <<>> THEN "sleep" ELSE "saving"
    /\ UNCHANGED <<now, session_type, world, other>>

\* test_reminder_notifications.py 138: scheduled_sessions = load_scheduled_sessions()
OtherLoads ==
    /\ other.pc = "idle"
    /\ other' = IF LoadRaises(scheduled_file) THEN [pc |-> "done", loaded |-> <<>>]
                ELSE [pc |-> "loaded", loaded |-> load_scheduled_sessions(scheduled_file)]
    /\ UNCHANGED <<scheduled_file, past_file, last_extracted_file, now, pc, session_type,
                   sent, delivered, world, inflight>>

\* test_reminder_notifications.py 140-187: append the test session and save
OtherSaves ==
    /\ other.pc = "loaded"
    /\ \E mode \in TestModes :
          scheduled_file' = other.loaded \o <<TestSession(mode, now)>>
    /\ other' = [pc |-> "done", loaded |-> <<>>]
    /\ UNCHANGED <<past_file, last_extracted_file, now, pc, session_type, sent, delivered,
                   world, inflight>>

NextThreads ==
    \/ StartupValidates \/ ValidatorOpens \/ ValidatorDumps \/ StartupUpdates
    \/ TickLoads \/ TickSaves \/ Sleep \/ Stop \/ OtherLoads \/ OtherSaves

ThreadsUniverses == {{S_11_1pm}}

InitThreads ==
    /\ scheduled_file = <<>>
    /\ past_file = <<>>
    /\ last_extracted_file = {}
    /\ now = FirstBoot
    /\ pc = "down"
    /\ session_type = "none"
    /\ test_mode = FALSE
    /\ x_enabled = TRUE
    /\ published \in ThreadsUniverses
    /\ sent = [k \in (Strings \cup TestStrings) \X Kinds |-> 0]
    /\ discord = "up"
    /\ delivered = sent
    /\ inflight = NoWork
    /\ other = NotRun
    /\ single_run = FALSE

SpecThreads == InitThreads /\ [][NextThreads]_vars

(***************************************************************************)
(* The process started on files an earlier run, or an earlier version of   *)
(* the parsers, left behind: the records may carry times that differ from  *)
(* what the parsers give today.                                            *)
(***************************************************************************)
rec_11_1pm == NewSessionData(S_11_1pm, FirstBoot - SleepUnits, TRUE)

\* "9-10pm" stored with start and end exchanged, its reminder sent
rec_swapped ==
    [rec_9_10pm EXCEPT !.start_time = rec_9_10pm.end_time,
                       !.end_time = rec_9_10pm.start_time,
                       !.reminder_sent = TRUE]

\* "8-9pm" stored a day late
rec_day_late ==
    [rec_8_9pm EXCEPT !.start_time = @ + UnitsPerDay, !.end_time = @ + UnitsPerDay]

\* "8-9pm" as a version that read the hours as morning hours stored it: every time
\* twelve hours early, the reminder times five minutes before start and end
rec_morning ==
    [rec_8_9pm EXCEPT !.start_time = @ - TwelveHours * UnitsPerHour,
                      !.reminder_time = @ - TwelveHours * UnitsPerHour,
                      !.end_time = @ - TwelveHours * UnitsPerHour,
                      !.end_reminder_time = @ - TwelveHours * UnitsPerHour]

ReconcileEntries == {rec_8_9pm, rec_11_1pm, rec_swapped, rec_day_late, rec_morning}

ReconcilePastFiles == {<<>>, <<rec_swapped>>, <<rec_8_9pm, rec_11_1pm>>}

InitReconcile ==
    /\ scheduled_file \in BoundedSeq(ReconcileEntries, MaxEntries)
    /\ past_file \in ReconcilePastFiles
    /\ last_extracted_file = {}
    /\ now = FirstBoot
    /\ pc = "down"
    /\ session_type = "none"
    /\ test_mode = FALSE
    /\ x_enabled = TRUE
    /\ published = {S_8_9pm, S_9_10pm}
    /\ sent = [k \in Strings \X Kinds |-> 0]
    /\ discord = "up"
    /\ delivered = sent
    /\ inflight = NoWork
    /\ other = NotRun
    /\ single_run = FALSE

NextReconcile == Startup \/ PollIterationListed

SpecReconcile == InitReconcile /\ [][NextReconcile]_vars

(***************************************************************************)
(* The process started after data was lost: scheduled_sessions.json may be *)
(* gone (a missing file reads as empty) while last_extracted_sessions.json *)
(* still lists what an earlier run saw, or the other way round.            *)
(***************************************************************************)
InitRecover ==
    /\ scheduled_file \in {<<>>, <<rec_9_10pm>>}
    /\ past_file = <<>>
    /\ last_extracted_file \in SUBSET {S_8_9pm, S_9_10pm}
    /\ now = FirstBoot
    /\ pc = "down"
    /\ session_type = "none"
    /\ test_mode = FALSE
    /\ x_enabled = TRUE
    /\ published = {S_8_9pm, S_9_10pm}
    /\ sent = [k \in Strings \X Kinds |-> 0]
    /\ discord = "up"
    /\ delivered = sent
    /\ inflight = NoWork
    /\ other = NotRun
    /\ single_run = FALSE

NextRecover == Startup \/ PollIteration \/ Sleep

SpecRecover == InitRecover /\ [][NextRecover]_vars

(***************************************************************************)
(* The process with restarts when the page may carry, beside "8-9pm", a    *)
(* time range whose end numeral is no hour of the day: the scrapers'       *)
(* pattern puts no limit on the numerals.                                  *)
(***************************************************************************)
S_9_13pm == Str(9, "", 13, "pm", 0)

CleanupUniverses == {{S_8_9pm, S_9_13pm}}

SpecCleanup == InitWith(CleanupUniverses) /\ [][Next]_vars

(***************************************************************************)
(* What the claims speak of.                                               *)
(***************************************************************************)
\* the records of a file that carry the string s, as written (before any load)
RecordsOf(file, s) == {i \in DOMAIN file : file[i].session = s}

\* the number of records with the string s in active and archived together
RecordCount(s) ==
    Cardinality(RecordsOf(scheduled_file, s)) + Cardinality(RecordsOf(past_file, s))

\* the iteration accepts the times it parses from s (main.py lines 432-448)
Accepted(s) == ~RejectedTimes(parse_session_date(s), parse_session_end_date(s))

(***************************************************************************)
(* C1.  Idempotent ingestion, normal mode: however often a session string  *)
(* is extracted, by whichever source, there is never more than one record  *)
(* with it in active and archived together and never more than one         *)
(* "announced" message for it; and once a completed iteration has          *)
(* extracted a string whose times the iteration accepts, there is exactly  *)
(* one record with it.                                                     *)
(***************************************************************************)
C1_IdempotentIngestion ==
    \A s \in Strings :
        /\ RecordCount(s) <= 1
        /\ sent[<<s, "date_time">>] <= 1
        /\ (s \in last_extracted_file /\ Accepted(s)) => RecordCount(s) = 1

\* the string was extracted again by the iteration that has just sent its end
\* reminder, two iterations after its creation, and still has one record and one
\* announcement
C1_Witness ==
    /\ pc = "sleep"
    /\ S_9_10pm \in last_extracted_file
    /\ RecordCount(S_9_10pm) = 1
    /\ \E i \in DOMAIN scheduled_file :
          /\ scheduled_file[i].session = S_9_10pm
          /\ scheduled_file[i].notified
          /\ scheduled_file[i].reminder_sent
          /\ scheduled_file[i].end_sent
    /\ sent[<<S_9_10pm, "date_time">>] = 1
    /\ sent[<<S_9_10pm, "5min_delta">>] = 1
    /\ sent[<<S_9_10pm, "end_state">>] = 1

(***************************************************************************)
(* C2.  Dedup is set-based: while a string has a record in the archive, no *)
(* step of the process (an iteration, the startup validation, cleanup or   *)
(* recovery) creates a record with that string, whatever is extracted and  *)
(* whatever the time is: the step leaves no new active record, and none    *)
(* that the same step has already archived.                                *)
(***************************************************************************)
C2_SetBasedDedup ==
    [][\A s \in Strings :
          s \in session_strings(past_file)
          => /\ Cardinality(RecordsOf(scheduled_file', s))
                    <= Cardinality(RecordsOf(scheduled_file, s))
             /\ RecordCount(s)' <= RecordCount(s)]_vars

\* the last iteration that extracted anything extracted "8-9pm"; its record, which
\* lived through the sweep at 20:55, is archived, as is the record of "9-10pm", which
\* lived through the sweep at 21:55; "8-9pm" has no active record
C2_Witness ==
    /\ pc = "sleep"
    /\ S_8_9pm \in last_extracted_file
    /\ S_8_9pm \notin session_strings(scheduled_file)
    /\ \E i, j \in DOMAIN past_file :
          /\ past_file[i].session = S_8_9pm
          /\ past_file[i].end_sent
          /\ past_file[j].session = S_9_10pm
          /\ past_file[j].end_sent

(***************************************************************************)
(* C3.  In every state the files are left in by the startup (validation,   *)
(* cleanup, recovery) and by any number of iterations, a string has at     *)
(* most one record in the active file, at most one in the archive, and     *)
(* never one in each.                                                      *)
(***************************************************************************)
C3_OneSetOnly ==
    \A s \in Strings :
        /\ Cardinality(RecordsOf(scheduled_file, s)) <= 1
        /\ Cardinality(RecordsOf(past_file, s)) <= 1
        /\ ~(s \in session_strings(scheduled_file) /\ s \in session_strings(past_file))

\* an iteration has moved "8-9pm" to the archive while "9-10pm" is still active
C3_Witness ==
    /\ pc = "sleep"
    /\ S_8_9pm \in session_strings(past_file)
    /\ S_9_10pm \in session_strings(scheduled_file)
    /\ S_8_9pm \in last_extracted_file
    /\ S_9_10pm \in last_extracted_file

(***************************************************************************)
(* C4.  Each notification stage fires at most once per session string,     *)
(* also when the process may stop between any two operations and start     *)
(* again from the files: no string is ever handed to the sender twice for  *)
(* the same kind of message.                                               *)
(***************************************************************************)
C4_OncePerStage ==
    \A s \in Strings, kind \in Kinds : sent[<<s, kind>>] <= 1

(***************************************************************************)
(* C5.  Monotonic flags, normal mode: once a record of a string has        *)
(* notified, reminder_sent or end_sent true in the files, the string keeps *)
(* a record and every record of it has that flag true after every later    *)
(* step (iteration, startup validation, cleanup, recovery).                *)
(***************************************************************************)
Flags == {"notified", "reminder_sent", "end_sent"}

\* the records with the string s in the two files sf and pf
Records(sf, pf, s) ==
    {sf[i] : i \in RecordsOf(sf, s)} \cup {pf[i] : i \in RecordsOf(pf, s)}

C5_MonotonicFlags ==
    [][\A s \in Strings, f \in Flags :
          (\E r \in Records(scheduled_file, past_file, s) : r[f])
          => /\ Records(scheduled_file', past_file', s) # {}
             /\ \A r \in Records(scheduled_file', past_file', s) : r[f]]_vars

\* "9-10pm" got its start reminder at 20:55; the process was then stopped and started
\* again, and the iteration at 21:50 extracted the string once more: the flags stand
C5_Witness ==
    /\ pc = "sleep"
    /\ now = FirstBoot + 2 * SleepUnits
    /\ S_9_10pm \in last_extracted_file
    /\ \E i \in DOMAIN scheduled_file :
          /\ scheduled_file[i].session = S_9_10pm
          /\ scheduled_file[i].notified
          /\ scheduled_file[i].reminder_sent
          /\ ~scheduled_file[i].end_sent

(***************************************************************************)
(* C6.  Archival is terminal: after every step, each record of the archive *)
(* is still in the archive with the same three flags, and no message has   *)
(* been sent for its string.                                               *)
(***************************************************************************)
C6_ArchivalTerminal ==
    [][\A i \in DOMAIN past_file :
          /\ \E j \in DOMAIN past_file' :
                /\ past_file'[j].session = past_file[i].session
                /\ \A f \in Flags : past_file'[j][f] = past_file[i][f]
          /\ \A kind \in Kinds :
                sent'[<<past_file[i].session, kind>>] = sent[<<past_file[i].session, kind>>]
          /\ Len(past_file') >= Len(past_file)]_vars

\* "11-1pm", recovered by a startup and announced and archived by a sweep, is in the
\* archive with its flags and one announcement; the last iteration extracted it again,
\* and "9-10pm", first seen after 20:55, is active
C6_Witness ==
    /\ pc = "sleep"
    /\ \E i \in DOMAIN past_file :
          /\ past_file[i].session = S_11_1pm
          /\ past_file[i].notified
          /\ ~past_file[i].reminder_sent
    /\ sent[<<S_11_1pm, "date_time">>] = 1
    /\ S_11_1pm \in last_extracted_file
    /\ \E i \in DOMAIN scheduled_file :
          /\ scheduled_file[i].session = S_9_10pm
          /\ scheduled_file[i].reminder_time = Null

(***************************************************************************)
(* C7.  An active record is moved on the first iteration at which          *)
(* end_time <= now, whatever its flags and whatever the iteration          *)
(* extracted: after an iteration that ran to its end, no record that was   *)
(* active with end_time <= now is still active, and each is archived.      *)
(***************************************************************************)
C7_MovedOnFirstTick ==
    [][(pc = "poll" /\ pc' = "sleep")
       => \A i \in DOMAIN scheduled_file :
             scheduled_file[i].end_time <= now
             => /\ scheduled_file[i].session \notin session_strings(scheduled_file')
                /\ scheduled_file[i].session \in session_strings(past_file')]_vars

(***************************************************************************)
(* C8.  Late detection.  A late record is one an iteration creates for a   *)
(* string that had no record, when its start_time is not after now.        *)
(***************************************************************************)
\* the step is an iteration that ran to its end
IterationDone == pc = "poll" /\ pc' = "sleep"

\* the records the step has created: those of the strings that had none
Created(s) ==
    IF Records(scheduled_file, past_file, s) # {}
    THEN {}
    ELSE Records(scheduled_file', past_file', s)

CreatedLate(s) == {r \in Created(s) : r.start_time <= now}

Active(s) == {scheduled_file[i] : i \in RecordsOf(scheduled_file, s)}

C9_ReminderWindows ==
    [][\A s \in Strings :
          /\ sent'[<<s, "5min_delta">>] # sent[<<s, "5min_delta">>]
             => /\ sent'[<<s, "5min_delta">>] = sent[<<s, "5min_delta">>] + 1
                /\ \E r \in Active(s) :
                      /\ r.reminder_time # Null
                      /\ ~r.reminder_sent
                      /\ r.reminder_time <= now
                      /\ now < r.start_time
          /\ sent'[<<s, "end_state">>] # sent[<<s, "end_state">>]
             => /\ sent'[<<s, "end_state">>] = sent[<<s, "end_state">>] + 1
                /\ \E r \in Active(s) :
                      /\ r.end_reminder_time # Null
                      /\ ~r.end_sent
                      /\ r.end_reminder_time <= now
                      /\ now < r.end_time
          /\ (\E r \in Records(scheduled_file, past_file, s) : r.reminder_time = Null)
             => /\ sent'[<<s, "5min_delta">>] = sent[<<s, "5min_delta">>]
                /\ \A r \in Records(scheduled_file', past_file', s) :
                      r.reminder_time = Null
          /\ (\E r \in Records(scheduled_file, past_file, s) : r.end_reminder_time = Null)
             => /\ sent'[<<s, "end_state">>] = sent[<<s, "end_state">>]
                /\ \A r \in Records(scheduled_file', past_file', s) :
                      r.end_reminder_time = Null]_vars

\* "9-10pm" has had both reminders, once each; "8-9pm", created with a null
\* reminder_time, is past its start and has had no start reminder
C9_Witness ==
    /\ sent[<<S_9_10pm, "5min_delta">>] = 1
    /\ sent[<<S_9_10pm, "end_state">>] = 1
    /\ sent[<<S_8_9pm, "5min_delta">>] = 0
    /\ \E r \in Records(scheduled_file, past_file, S_8_9pm) :
          r.reminder_time = Null /\ r.end_time <= now
    /\ \E r \in Records(scheduled_file, past_file, S_9_10pm) :
          r.reminder_sent /\ r.end_sent

(***************************************************************************)
(* C10.  Reminders are delivered: with iterations one hour apart, a        *)
(* session created with a reminder_time (an end_reminder_time) gets its    *)
(* "T-5 start" ("T-5 end") message before it is archived, so every         *)
(* archived record with a reminder_time has reminder_sent, and every one   *)
(* with an end_reminder_time has end_sent.                                 *)
(***************************************************************************)
C10_RemindersDelivered ==
    \A i \in DOMAIN past_file :
        /\ past_file[i].reminder_time # Null => past_file[i].reminder_sent
        /\ past_file[i].end_reminder_time # Null => past_file[i].end_sent

(***************************************************************************)
(* C11.  A delivery failure never blocks the lifecycle: whether Discord    *)
(* takes the message or not, a step that hands a message of some kind for  *)
(* a string to the sender is the first to do so, leaves every record of    *)
(* the string with the flag of that kind true, does not end the process,   *)
(* and leaves no notification due on any active record (the sweep went on  *)
(* to the remaining records).                                              *)
(***************************************************************************)
FlagOf(kind) ==
    CASE kind = "date_time" -> "notified"
      [] kind = "5min_delta" -> "reminder_sent"
      [] kind = "end_state" -> "end_sent"

NothingDue(session, t) ==
    ~(AnnouncementDue(session, t) \/ ReminderDue(session, t) \/ EndReminderDue(session, t))

C11_FailureSetsFlag ==
    [][/\ \A s \in Strings, kind \in Kinds :
             sent'[<<s, kind>>] # sent[<<s, kind>>]
             => /\ sent[<<s, kind>>] = 0
                /\ sent'[<<s, kind>>] = 1
                /\ Records(scheduled_file', past_file', s) # {}
                /\ \A r \in Records(scheduled_file', past_file', s) : r[FlagOf(kind)]
                /\ pc' = "sleep"
       /\ sent' # sent
          => \A i \in DOMAIN scheduled_file' : NothingDue(scheduled_file'[i], now)]_vars

\* both announcements of one iteration failed (sent, not delivered) and both records
\* are notified; the outage ended, and a later iteration delivered the start reminder
\* of "9-10pm" without announcing anything again
C11_Witness ==
    /\ discord = "up"
    /\ sent[<<S_8_9pm, "date_time">>] = 1
    /\ delivered[<<S_8_9pm, "date_time">>] = 0
    /\ sent[<<S_9_10pm, "date_time">>] = 1
    /\ delivered[<<S_9_10pm, "date_time">>] = 0
    /\ delivered[<<S_9_10pm, "5min_delta">>] = 1
    /\ \A s \in {S_8_9pm, S_9_10pm} :
          \E r \in Records(scheduled_file, past_file, s) : r.notified

\* the records in the two files
Stored == Range(scheduled_file) \cup Range(past_file)

(***************************************************************************)
(* C12.  Duration invariant: every record the engine stores has            *)
(* 0 < end_time - start_time <= 4 hours.                                   *)
(***************************************************************************)
C12_DurationInvariant ==
    \A r \in Stored :
        /\ r.end_time - r.start_time > 0
        /\ r.end_time - r.start_time <= MaxDurationHours * UnitsPerHour

(***************************************************************************)
(* C13.  Reminder future-only: a record created at the time now has        *)
(* reminder_time = start_time - 5 min and end_reminder_time = end_time -   *)
(* 5 min, each replaced by null exactly when it is not strictly after now. *)
(***************************************************************************)
FutureOnly(time, t) == IF time - FiveMinutes > t THEN time - FiveMinutes ELSE Null

C13_ReminderFutureOnly ==
    [][\A s \in published : \A r \in Created(s) :
          /\ r.reminder_time = FutureOnly(r.start_time, now')
          /\ r.end_reminder_time = FutureOnly(r.end_time, now')]_vars

\* a record created exactly five minutes before its start: the reminder instant is
\* now, not after it, so reminder_time is null, while end_reminder_time is set
C13_Witness ==
    \E r \in Stored :
        /\ r.start_time - FiveMinutes = now
        /\ r.reminder_time = Null
        /\ r.end_reminder_time = r.end_time - FiveMinutes
        /\ r.end_reminder_time > now

(***************************************************************************)
(* C14.  An end without a meridiem is PM: the stored end_time of such a    *)
(* string is at the PM hour of its end numeral, and its end_reminder_time  *)
(* is null or five minutes before that.                                    *)
(***************************************************************************)
C14_EndDefaultsToPM ==
    \A r \in Stored :
        r.session.eap = ""
        => /\ r.end_time = Replace(r.session.date, To24(r.session.eh, "pm"))
           /\ r.end_reminder_time \in {Null, r.end_time - FiveMinutes}

(***************************************************************************)
(* C15.  A start whose meridiem is written keeps it: the stored start_time *)
(* of such a string is at the hour its numeral and its own meridiem give.  *)
(***************************************************************************)
C15_ExplicitStartKept ==
    \A r \in Stored :
        r.session.sap # ""
        => r.start_time = Replace(r.session.date, To24(r.session.sh, r.session.sap))

(***************************************************************************)
(* C16.  For numerals in 1..12 and every combination of written or absent  *)
(* meridiems, the stored hours follow the 12-hour rules, the end taking    *)
(* its written meridiem (PM when absent) and the start its written         *)
(* meridiem (the end's when absent).                                       *)
(***************************************************************************)
C16_TwelveHourRules ==
    \A r \in Stored :
        LET s == r.session
            end_meridiem == IF s.eap = "" THEN "pm" ELSE s.eap
            start_meridiem == IF s.sap = "" THEN end_meridiem ELSE s.sap
        IN  (s.sh \in 1..TwelveHours /\ s.eh \in 1..TwelveHours)
            => /\ r.start_time = Replace(s.date, To24(s.sh, start_meridiem))
               /\ r.end_time = Replace(s.date, To24(s.eh, end_meridiem))

(***************************************************************************)
(* C17.  A session string the resolver cannot resolve is skipped: the      *)
(* iteration that meets it runs to its end, and no record is stored for    *)
(* a string one of whose numerals gives no hour of the day.                *)
(***************************************************************************)
Unresolvable(s) ==
    \/ s.shape # "ok"
    \/ s.date = BadDate
    \/ Raise \in {parse_session_date(s), parse_session_end_date(s)}

C17_UnresolvableSkipped ==
    [][/\ pc = "poll" => pc' = "sleep"
       /\ \A r \in Range(scheduled_file') \cup Range(past_file') :
             ~Unresolvable(r.session)]_vars

(***************************************************************************)
(* C18.  Every load of the active or of the archived file returns, in file *)
(* order, exactly the entries that are records with a non-empty session    *)
(* string and are the first such entry of their string; the load of a file *)
(* that holds a list does not fail.                                        *)
(***************************************************************************)
HoldsList(file) == file \notin {UnreadableFile, ScalarFile}

IsRecordWithString(entry) == entry.session.shape \in {"ok", "nocomma", "nodash"}

\* the indices of the entries the claim says a load keeps
KeptIndices(file) ==
    {i \in DOMAIN file :
        /\ IsRecordWithString(file[i])
        /\ ~\E j \in DOMAIN file : j < i /\ file[j].session = file[i].session}

\* loaded lists the entries of file at the indices in keep, in increasing order
ListsInOrder(loaded, file, keep) ==
    /\ Len(loaded) = Cardinality(keep)
    /\ \E at \in [DOMAIN loaded -> keep] :
          /\ \A k, l \in DOMAIN loaded : k < l => at[k] < at[l]
          /\ \A k \in DOMAIN loaded : loaded[k] = file[at[k]]

C18_LoadFilters ==
    /\ HoldsList(scheduled_file)
       => /\ ~LoadRaises(scheduled_file)
          /\ ListsInOrder(load_scheduled_sessions(scheduled_file), scheduled_file,
                          KeptIndices(scheduled_file))
    /\ HoldsList(past_file)
       => /\ ~LoadRaises(past_file)
          /\ ListsInOrder(load_past_scheduled_sessions(past_file), past_file,
                          KeptIndices(past_file))

\* the startup has read an active file with two entries for "8-9pm", of which the
\* load keeps the first, the announced one, and an archive whose first entry is no
\* object, of which the load keeps the second
C18_Witness ==
    /\ pc = "poll"
    /\ Len(scheduled_file) = 2
    /\ scheduled_file[1] = rec_8_9pm
    /\ scheduled_file[2].session = S_8_9pm
    /\ ~scheduled_file[2].notified
    /\ load_scheduled_sessions(scheduled_file) = <<rec_8_9pm>>
    /\ Len(past_file) = 2
    /\ past_file[1].session.shape = "notdict"
    /\ load_past_scheduled_sessions(past_file) = <<past_file[2]>>

\* a record with a session string that lacks its start_time or its end_time
Incomplete(entry) ==
    ValidEntry(entry) /\ (entry.start_time = Missing \/ entry.end_time = Missing)

\* no record of the list the file holds, if it holds one, is incomplete
AllComplete(file) == HoldsList(file) => \A i \in DOMAIN file : ~Incomplete(file[i])

(***************************************************************************)
(* C19.  A session file that is not valid JSON, or is valid JSON that is   *)
(* not a list, is treated as an empty collection: with such a file, and    *)
(* every record of the other file complete, the startup and the iteration  *)
(* run to their end and the process does not end with an exception.        *)
(***************************************************************************)
C19_DamagedFileIsEmpty ==
    [][(/\ ~HoldsList(scheduled_file) \/ ~HoldsList(past_file)
        /\ AllComplete(scheduled_file)
        /\ AllComplete(past_file))
       => pc' # "dead"]_vars

(***************************************************************************)
(* C20.  Partial record corruption does not block the service: when the    *)
(* files hold lists and the active file has a record with a session string *)
(* but no start_time, the load drops that record and the iteration runs to *)
(* its end.                                                                *)
(***************************************************************************)
C20_IncompleteDropped ==
    [][(/\ pc = "poll"
        /\ HoldsList(scheduled_file)
        /\ HoldsList(past_file)
        /\ ~AllComplete(scheduled_file))
       => /\ AllComplete(load_scheduled_sessions(scheduled_file))
          /\ pc' = "sleep"]_vars

(***************************************************************************)
(* C21: no update is lost between two load-modify-save sequences: when the *)
(* test script or the poll iteration saves the active collection, every    *)
(* session that was in it just before that save is still in the active or  *)
(* the archived collection just after it.                                  *)
(***************************************************************************)
OtherSaved == other.pc = "loaded" /\ other'.pc = "done"

TickSaved == pc = "saving" /\ inflight' # inflight

C21_NoLostUpdate ==
    [][OtherSaved \/ TickSaved
       => session_strings(scheduled_file)
            \subseteq session_strings(scheduled_file') \cup session_strings(past_file')]_vars

(***************************************************************************)
(* C22: no reader of the process observes a partially written collection:  *)
(* whenever the test script loads the active collection, no write of a     *)
(* collection is under way.                                                *)
(***************************************************************************)
OtherLoaded == other.pc = "idle" /\ other'.pc # "idle"

C22_NoPartialRead == [][OtherLoaded => ~inflight.open]_vars

(***************************************************************************)
(* C23: reconciliation never alters notification flags: for either         *)
(* collection and any start time, the file validate_and_correct_sessions_  *)
(* file leaves holds, for every session string and every combination of    *)
(* notified, reminder_sent and end_sent, as many records as the file it    *)
(* found, whether or not times were corrected.                             *)
(***************************************************************************)
FlagsOf(session) == <<session.notified, session.reminder_sent, session.end_sent>>

FlagCount(file, s, f) ==
    Cardinality({i \in DOMAIN file : file[i].session = s /\ FlagsOf(file[i]) = f})

C23_FlagsKept ==
    \A t \in StartTimes(now) :
      \A file \in {scheduled_file, past_file} :
        \A after \in {validate_and_correct_sessions_file(file, t)} :
          /\ Len(after) = Len(file)
          /\ \A s \in Strings, f \in BOOLEAN \X BOOLEAN \X BOOLEAN :
                FlagCount(after, s, f) = FlagCount(file, s, f)

\* a start found "9-10pm" stored with its times exchanged and its reminder sent (no
\* other record of these runs has that flag), and left it with the parsers' times
C23_Witness ==
    /\ pc = "poll"
    /\ past_file = <<>>
    /\ \E i \in DOMAIN scheduled_file :
          scheduled_file[i] = [rec_9_10pm EXCEPT !.reminder_sent = TRUE]

(***************************************************************************)
(* C24: the reconciler writes a collection back only if a record changed:  *)
(* for either collection and any start time, when the corrected list holds *)
(* the same records as the file, validate_and_correct_sessions_file does   *)
(* not write, and the file keeps its contents and its order.               *)
(***************************************************************************)
C24_WrittenOnlyIfChanged ==
    \A t \in StartTimes(now) :
      \A file \in {scheduled_file, past_file} :
        Range(Validation(file, t).corrected_sessions) = Range(file)
        => /\ ~Validation(file, t).corrections_made
           /\ validate_and_correct_sessions_file(file, t) = file

(***************************************************************************)
(* C25: after startup reconciliation every persisted record whose string   *)
(* resolves has the start_time and end_time the parsers give for that      *)
(* string now: for either collection and any start time, each record of    *)
(* the file validate_and_correct_sessions_file leaves has them.            *)
(***************************************************************************)
Resolves(s) ==
    /\ parse_session_date(s) \notin {Null, Raise}
    /\ parse_session_end_date(s) \notin {Null, Raise}

C25_TimesAreFresh ==
    \A t \in StartTimes(now) :
      \A file \in {scheduled_file, past_file} :
        \A i \in DOMAIN file :
          LET after == validate_and_correct_sessions_file(file, t)[i]
          IN  Resolves(after.session)
              => /\ after.start_time = parse_session_date(after.session)
                 /\ after.end_time = parse_session_end_date(after.session)

(***************************************************************************)
(* C26: data-loss recovery: whenever the startup or a poll iteration       *)
(* extracts a resolvable session string that is in neither the active nor  *)
(* the archived collection, the active collection holds, when that startup *)
(* or iteration ends, a record of that string with notified, reminder_sent *)
(* and end_sent all false.                                                 *)
(***************************************************************************)
\* the worlds an iteration may leave when it starts with the last-seen set last
IterationFrom(last, current_sessions, is_next) ==
    LET d == [TheDisk EXCEPT !.last = last]
    IN  {LET it == poll_iteration(d, now, test_mode, current_sessions, is_next, new_order)
         IN  ApplyEffects(d, it.effects, Len(it.effects))
           : new_order \in Perms(NewSessions(d, current_sessions))}

Tracked(s) ==
    \/ \E i \in DOMAIN scheduled_file : scheduled_file[i].session = s
    \/ \E i \in DOMAIN past_file : past_file[i].session = s

Unflagged(sessions, s) ==
    \E i \in DOMAIN sessions :
      sessions[i].session = s /\ FlagsOf(sessions[i]) = <<FALSE, FALSE, FALSE>>

C26_MissingRecovered ==
    /\ pc = "down"
       => \A t \in StartTimes(now), found \in Extractions :
            \A s \in Range(found) :
              Resolves(s) /\ ~Tracked(s)
              => Unflagged(ApplyEffects(TheDisk, startup(TheDisk, t, TRUE, found),
                                        Len(startup(TheDisk, t, TRUE, found))).scheduled, s)
    /\ pc = "poll"
       => \A web \in WebsiteResults :
            \A f \in IterationFrom(last_extracted_file, web[2], web[1] = "next") :
              \A s \in Range(web[2]) :
                Resolves(s) /\ ~Tracked(s) => Unflagged(f.scheduled, s)

(***************************************************************************)
(* C27: the last-seen set influences logging only: a poll iteration leaves *)
(* the same active and archived records and sends the same notifications   *)
(* whatever last_extracted_sessions.json held when it started, the active  *)
(* and archived collections, the clock and the extraction being the same.  *)
(***************************************************************************)
C27_LastSeenOnlyLogs ==
    pc = "poll"
    => \A web \in WebsiteResults, last \in SUBSET published :
         \A f \in IterationFrom(last_extracted_file, web[2], web[1] = "next"),
            g \in IterationFrom(last, web[2], web[1] = "next") :
           /\ Range(f.scheduled) = Range(g.scheduled)
           /\ Range(f.past) = Range(g.past)
           /\ f.sent = g.sent

(***************************************************************************)
(* C28: the stages are passed in order, none skipped: in every reachable   *)
(* state a record, active or archived, whose end_sent is true has          *)
(* reminder_sent true.                                                     *)
(***************************************************************************)
C28_StagesInOrder == \A session \in Stored : session.end_sent => session.reminder_sent

(***************************************************************************)
(* C29: in single-run mode the poll loop runs one iteration and the        *)
(* process exits; in either mode an iteration, once started, runs to       *)
(* completion before the process sleeps or exits: whatever the scrapers    *)
(* return, it raises nothing and ends with the sweep's two saves and the   *)
(* save of the last-seen set.                                              *)
(***************************************************************************)
Completes(it) ==
    /\ ~it.raised
    /\ Len(it.effects) >= 3
    /\ it.effects[Len(it.effects) - 2].op = "save_scheduled"
    /\ it.effects[Len(it.effects) - 1].op = "save_past"
    /\ it.effects[Len(it.effects)].op = "save_last"

C29_RunsToCompletion ==
    [][/\ pc = "poll"
          => \A web \in WebsiteResults, x \in XResults(now, x_enabled) :
               \A new_order \in Perms(NewSessions(TheDisk, CurrentSessions(web[2], x[2]))) :
                 Completes(poll_iteration(TheDisk, now, test_mode,
                                          CurrentSessions(web[2], x[2]),
                                          x[1] = "next" \/ web[1] = "next",
                                          new_order))
       /\ pc = "poll" /\ pc' # "poll"
          => pc' = IF single_run THEN "done" ELSE "sleep"]_vars

(***************************************************************************)
(* C30: within one sweep the records are independent: for every record the *)
(* sweep loads, the messages sent for it, the flags it is left with and    *)
(* the collection it is left in are what a sweep of that record alone      *)
(* gives, whatever other records are there and wherever it stands in the   *)
(* list.                                                                   *)
(***************************************************************************)
SweepOf(sessions) ==
    LET d == [TheDisk EXCEPT !.scheduled = sessions, !.past = <<>>]
        sweep == check_and_send_notifications(d, now)
    IN  [messages |-> sweep.effects,
         world |-> ApplyEffects(d, sweep.effects, Len(sweep.effects))]

MessagesFor(effects, s) == SelectSeq(effects, LAMBDA e : e.op = "send" /\ e.s = s)

C30_RecordsIndependent ==
    ~LoadRaises(scheduled_file)
    => LET loaded == load_scheduled_sessions(scheduled_file)
       IN  \A i \in DOMAIN loaded :
             LET alone == SweepOf(<<loaded[i]>>)
                 all == SweepOf(loaded)
             IN  /\ MessagesFor(all.messages, loaded[i].session)
                      = MessagesFor(alone.messages, loaded[i].session)
                 /\ Range(alone.world.scheduled) \subseteq Range(all.world.scheduled)
                 /\ Range(alone.world.past) \subseteq Range(all.world.past)

(***************************************************************************)
(* C31: the reminder times stay derived from the start and the end: for    *)
(* either collection and any start time, when every record of the file has *)
(* a reminder_time that is null or start_time - 5min and an                *)
(* end_reminder_time that is null or end_time - 5min, so has every record  *)
(* of the file validate_and_correct_sessions_file leaves, also when it     *)
(* corrected start_time or end_time.                                       *)
(***************************************************************************)
Derived(session) ==
    /\ session.reminder_time \in {Null, session.start_time - FiveMinutes}
    /\ session.end_reminder_time \in {Null, session.end_time - FiveMinutes}

C31_ReminderTimesDerived ==
    \A t \in StartTimes(now) :
      \A file \in {scheduled_file, past_file} :
        (\A i \in DOMAIN file : Derived(file[i]))
        => \A i \in DOMAIN file :
             Derived(validate_and_correct_sessions_file(file, t)[i])

(***************************************************************************)
(* C32: the move from active to archived survives a process stop: a        *)
(* session string that has a record in the active or the archived          *)
(* collection still has one after every step, also after a step in which   *)
(* the process is stopped between two of its writes.                       *)
(***************************************************************************)
C32_TrackedStaysTracked ==
    [][\A s \in Strings : Tracked(s) => Tracked(s)']_vars

(***************************************************************************)
(* C33: startup recovery sends no notification for the sessions it         *)
(* inserts: when a startup inserts, for a string that has no record, a     *)
(* record with notified false, no "announced" message for that string is   *)
(* sent during the startup, nor by the first poll iteration after it,      *)
(* whatever the scrapers return to that iteration.                         *)
(***************************************************************************)
Announcements(effects, s) ==
    SelectSeq(effects, LAMBDA e : e.op = "send" /\ e.s = s /\ e.kind = "date_time")

Inserted(d, s) ==
    /\ ~Tracked(s)
    /\ \E i \in DOMAIN d.scheduled : d.scheduled[i].session = s /\ ~d.scheduled[i].notified

\* the effects of the iterations that may follow a startup that left the world d at t
FirstTicks(d, t) ==
    {poll_iteration(d, t, test_mode, CurrentSessions(r[1][2], r[2][2]),
                    r[2][1] = "next" \/ r[1][1] = "next", r[3]).effects :
       r \in UNION {{<<web, x, new_order>> :
                       new_order \in Perms(NewSessions(d, CurrentSessions(web[2], x[2])))} :
                    web \in WebsiteResults, x \in XResults(t, x_enabled)}}

C33_RecoveryIsSilent ==
    pc = "down"
    => \A t \in StartTimes(now), found \in Extractions :
         \A effects \in {startup(TheDisk, t, TRUE, found)} :
           \A d \in {ApplyEffects(TheDisk, effects, Len(effects))} :
             \A s \in Strings :
               Inserted(d, s)
               => /\ Announcements(effects, s) = <<>>
                  /\ \A tick \in FirstTicks(d, t) : Announcements(tick, s) = <<>>

(***************************************************************************)
(* C34: startup cleanup: when a start fetches the page, a record the       *)
(* active collection holds after validation is in the archived collection  *)
(* and no longer in the active one when the startup ends if its string is  *)
(* absent from the startup extraction and its end_time <= now; otherwise   *)
(* it is still in the active collection and was not added to the archived  *)
(* one; either way the record is the same, flags and times, and the        *)
(* startup sends no message.                                               *)
(***************************************************************************)
C34_CleanupMovesEnded ==
    pc = "down"
    => \A t \in StartTimes(now), found \in Extractions :
         \A validation \in {run_startup_validation(TheDisk, t)} :
           \A d \in {ApplyEffects(TheDisk, validation, Len(validation))} :
             \A effects \in {startup_update(d, t, TRUE, found)} :
               \A after \in {ApplyEffects(d, effects, Len(effects))} :
                 /\ \A e \in Range(effects) : e.op # "send"
                 /\ \A session \in Range(load_scheduled_sessions(d.scheduled)) :
                      IF session.session \notin Range(found) /\ session.end_time <= t
                      THEN /\ session \in Range(after.past)
                           /\ session \notin Range(after.scheduled)
                      ELSE /\ session \in Range(after.scheduled)
                           /\ session \in Range(after.past) => session \in Range(d.past)

(***************************************************************************)
(* C35: a poll iteration whose extraction is empty changes nothing: when   *)
(* the scrapers return no session string, whether the fetch failed or the  *)
(* text holds none, the iteration leaves the active, archived and          *)
(* last-seen collections as they are, sends no message and raises nothing. *)
(***************************************************************************)
EmptyResults ==
    {r \in WebsiteResults \X XResults(now, x_enabled) :
        CurrentSessions(r[1][2], r[2][2]) = <<>>}

C36_ReminderImpliesNotified ==
    \A session \in Stored : session.reminder_sent => session.notified

\* the iteration that has just ended ran at a record's reminder_time and sent its
\* start reminder; the record was announced before or by the same sweep
C36_Witness ==
    /\ pc = "sleep"
    /\ \E session \in Range(scheduled_file) :
          /\ session.reminder_time = now
          /\ session.reminder_sent
          /\ session.notified
          /\ sent[<<session.session, "5min_delta">>] = 1

(***************************************************************************)
(* C37: the announcement comes within the iteration that creates the       *)
(* record: for a string without a record whose start is ahead, whatever    *)
(* the scrapers return, if the iteration leaves an active record of it,    *)
(* that record has notified true and the iteration sent exactly one        *)
(* announcement for it; and if the iteration sent an announcement for it,  *)
(* as it does on creating a record from a 'next' extraction, it leaves an  *)
(* active record of it with notified true.                                 *)
(***************************************************************************)
ActiveRecords(d, s) ==
    {d.scheduled[i] : i \in {j \in DOMAIN d.scheduled : d.scheduled[j].session = s}}

C37_AnnouncedWithinTick ==
    pc = "poll"
    => \A tick \in FirstTicks(TheDisk, now) :
         \A after \in {ApplyEffects(TheDisk, tick, Len(tick))} :
           \A s \in published :
             ~Tracked(s) /\ Resolves(s) /\ parse_session_date(s) > now
             => /\ \A session \in ActiveRecords(after, s) :
                     session.notified /\ Len(Announcements(tick, s)) = 1
                /\ Announcements(tick, s) # <<>>
                   => \E session \in ActiveRecords(after, s) : session.notified

(***************************************************************************)
(* C38: the reconciler agrees with the time resolver on fresh data: every  *)
(* record the startup or a poll iteration has created and stored, in       *)
(* either collection, is judged valid by validate_session_times.           *)
(***************************************************************************)
C38_FreshRecordsValid ==
    \A session \in Stored : validate_session_times(session)

(***************************************************************************)
(* C39: reconciliation is idempotent: for either collection and any start  *)
(* time, a second run of validate_and_correct_sessions_file on the file    *)
(* the first run left, with the same clock, finds every record valid and   *)
(* does not write.                                                         *)
(***************************************************************************)
C39_ReconcileIdempotent ==
    \A t \in StartTimes(now) :
      \A file \in {scheduled_file, past_file} :
        \A once \in {validate_and_correct_sessions_file(file, t)} :
          /\ \A i \in DOMAIN once : validate_session_times(once[i])
          /\ ~Validation(once, t).corrections_made

====
